---- MODULE Spec2Model ----
(***************************************************************************)
(* Model of api/app.py: a Flask webhook that relays Feishu chat messages   *)
(* to Gemini, keeps per-session history and the Feishu tenant token in     *)
(* Vercel KV (a Redis-like store with per-key expiry) and posts the reply  *)
(* back to Feishu.                                                         *)
(*                                                                         *)
(* Strings are sequences of atoms: an atom stands for one character or for *)
(* a fixed chunk of characters that no operation of the program splits.    *)
(* Python values carry their type: None, str and list are told apart.      *)
(* Every Python function is an operator giving the SET of its possible     *)
(* outcomes [kv, ret, exc, trace]: the store after the call, the value     *)
(* returned, the exception that left the function ("none" when it          *)
(* returned) and the external calls it made, in order.  The outcomes       *)
(* differ by what the external services answered.                          *)
(***************************************************************************)
EXTENDS Integers, Sequences, FiniteSets, TLC

VARIABLES
    kv,      \* the Vercel KV store: key -> [val, exp]
    now,     \* the store's clock, in seconds
    call,    \* the last operation invoked: [fn, args]
    result,  \* what it gave: [ret, exc]
    trace,   \* the external calls it made, in order
    proc     \* the invocations that run at the same time: id -> where each is

vars == <<kv, now, call, result, trace, proc>>

----------------------------------------------------------------------------
(* Bounds of the model *)

MaxNow == 7300
MaxTurns == 4
MaxIdLen == 2

----------------------------------------------------------------------------
(* Python values *)

PyNone == [none |-> TRUE]
PyStr(s) == [str |-> s]
PyList(l) == [list |-> l]

PyDict(d) == [dict |-> d]
\* A str that is the JSON text of value v
JsonText(v) == [jsontext |-> v]

IsNone(v) == "none" \in DOMAIN v
IsStr(v) == "str" \in DOMAIN v
IsList(v) == "list" \in DOMAIN v
IsDict(v) == "dict" \in DOMAIN v
IsJsonText(v) == "jsontext" \in DOMAIN v

EmptyDict == PyDict(<<>>)

\* Python truthiness: None, "", [] and {} are false
Truthy(v) ==
    IF IsNone(v) THEN FALSE
    ELSE IF IsStr(v) THEN v.str /= <<>>
    ELSE IF IsList(v) THEN v.list /= <<>>
    ELSE IF IsDict(v) THEN DOMAIN v.dict /= {}
    ELSE TRUE

\* d.get(key, default) of a dict
Get(d, key, default) == IF key \in DOMAIN d.dict THEN d.dict[key] ELSE default

\* key in v: a key of a dict, an element of a list, a part of a str
Contains(v, key) ==
    IF IsDict(v) THEN key \in DOMAIN v.dict
    ELSE IF IsList(v) THEN \E i \in DOMAIN v.list : v.list[i] = PyStr(<<key>>)
    ELSE IsStr(v) /\ \E i \in DOMAIN v.str : v.str[i] = key

Outcome(store, ret, exc, tr) == [kv |-> store, ret |-> ret, exc |-> exc, trace |-> tr]

----------------------------------------------------------------------------
(* The key-value store *)

TOKEN_EX == 6600
SESSION_EX == 3600

TOKEN_KEY == <<"FEISHU_TENANT_ACCESS_TOKEN">>

EmptyKv == [k \in {} |-> PyNone]

\* How a call to the store can fail: the client talks HTTP through the
\* requests library, so a failure is a requests.RequestException or another
\* exception
StoreErrors == {"RequestException", "Exception"}

\* A key is there until its expiry time is reached
KvLive(store, k, t) == k \in DOMAIN store /\ t < store[k].exp

KvLookup(store, k, t) == IF KvLive(store, k, t) THEN store[k].val ELSE PyNone

KvWithout(store, k) == [x \in DOMAIN store \ {k} |-> store[x]]

KvWith(store, k, v, ex, t) ==
    [x \in DOMAIN store \cup {k} |->
        IF x = k THEN [val |-> v, exp |-> t + ex] ELSE store[x]]

\* The store drops a key when its expiry time is reached
KvExpire(store, t) == [x \in {k \in DOMAIN store : KvLive(store, k, t)} |-> store[x]]

\* kv.get(k): the value, or None for a key that is not there
kv_get(store, k, t) ==
    {Outcome(store, KvLookup(store, k, t), "none",
             <<<<"kv.get", k, IF KvLive(store, k, t) THEN "hit" ELSE "miss">>>>)}
    \cup {Outcome(store, PyNone, e, <<<<"kv.get", k, e>>>>) : e \in StoreErrors}

\* kv.set(k, v, ex=ex)
kv_set(store, k, v, ex, t) ==
    {Outcome(KvWith(store, k, v, ex, t), PyNone, "none", <<<<"kv.set", k, "ok">>>>)}
    \cup {Outcome(store, PyNone, e, <<<<"kv.set", k, e>>>>) : e \in StoreErrors}

\* kv.delete(k): deleting an absent key is no error
kv_delete(store, k) ==
    {Outcome(KvWithout(store, k), PyNone, "none", <<<<"kv.delete", k, "ok">>>>)}
    \cup {Outcome(store, PyNone, e, <<<<"kv.delete", k, e>>>>) : e \in StoreErrors}

----------------------------------------------------------------------------
(* Session history *)

\* A slip in the fallback test: the stored turns are dropped and the empty
\* list is returned for them
get_conversation_history_inverted(store, t, session_id) ==
    {IF r.exc = "none"
        THEN Outcome(r.kv, IF Truthy(r.ret) THEN PyList(<<>>) ELSE r.ret, "none", r.trace)
        ELSE r
     : r \in kv_get(store, session_id, t)}

get_conversation_history(store, t, session_id) ==
    {IF r.exc = "none"
        THEN Outcome(r.kv, IF Truthy(r.ret) THEN r.ret ELSE PyList(<<>>), "none", r.trace)
        ELSE r
     : r \in kv_get(store, session_id, t)}

\* The history saved with the token's time to live
save_conversation_history_tokenTtl(store, t, session_id, history) ==
    kv_set(store, session_id, history, TOKEN_EX, t)

save_conversation_history(store, t, session_id, history) ==
    kv_set(store, session_id, history, SESSION_EX, t)

\* Clearing by overwriting with an empty history: the key stays in the store
clear_conversation_history_overwrite(store, t, session_id) ==
    kv_set(store, session_id, PyList(<<>>), SESSION_EX, t)

clear_conversation_history(store, t, session_id) ==
    kv_delete(store, session_id)

----------------------------------------------------------------------------
(* The Feishu tenant token *)

Tokens == {<<"t1">>, <<"t2">>}

\* The validity in seconds that the token endpoint states in "expire": two
\* hours for a token it has just made; the time that is left for a token it
\* made earlier and hands out again
FRESH_VALIDITY == 7200
LEFT_VALIDITY == 3600

\* What the token endpoint can answer: no answer, an HTTP error status, a
\* body that is no JSON, a body whose code is not 0, a body with code 0, a
\* token and its validity
ExchangeAnswers ==
    {[kind |-> k, token |-> <<>>, expire |-> 0] :
        k \in {"network_error", "http_error", "invalid_json", "code_nonzero"}}
    \cup {[kind |-> "ok", token |-> <<"t1">>, expire |-> FRESH_VALIDITY],
          [kind |-> "ok", token |-> <<"t2">>, expire |-> LEFT_VALIDITY]}

ExchangeEvent(a) == <<"token_exchange", a.kind, a.token, a.expire>>

\* What follows the answer with its code not looked at: whatever token
\* field the body has is cached and returned
AfterExchange_codeIgnored(store, t, a, tr) ==
    CASE a.kind \in {"network_error", "http_error"} ->
            {Outcome(store, PyNone, "none", tr)}
      [] a.kind = "invalid_json" ->
            {Outcome(store, PyNone, "none", tr), Outcome(store, PyNone, "ValueError", tr)}
      [] OTHER ->
            {IF w.exc = "none"
                THEN Outcome(w.kv, PyStr(a.token), "none", tr \o w.trace)
             ELSE IF w.exc = "RequestException"
                THEN Outcome(w.kv, PyNone, "none", tr \o w.trace)
             ELSE Outcome(w.kv, PyNone, w.exc, tr \o w.trace)
             : w \in kv_set(store, TOKEN_KEY, PyStr(a.token), TOKEN_EX, t)}

\* What follows the answer of the token endpoint
AfterExchange(store, t, a, tr) ==
    CASE a.kind \in {"network_error", "http_error"} ->
            \* requests.RequestException, caught
            {Outcome(store, PyNone, "none", tr)}
      [] a.kind = "invalid_json" ->
            \* response.json() raises: a RequestException in newer versions of
            \* requests (caught), a plain ValueError in older ones (not caught)
            {Outcome(store, PyNone, "none", tr), Outcome(store, PyNone, "ValueError", tr)}
      [] a.kind = "code_nonzero" ->
            {Outcome(store, PyNone, "none", tr)}
      [] OTHER ->
            {IF w.exc = "none"
                THEN Outcome(w.kv, PyStr(a.token), "none", tr \o w.trace)
             ELSE IF w.exc = "RequestException"
                THEN Outcome(w.kv, PyNone, "none", tr \o w.trace)
             ELSE Outcome(w.kv, PyNone, w.exc, tr \o w.trace)
             : w \in kv_set(store, TOKEN_KEY, PyStr(a.token), TOKEN_EX, t)}

\* The exchange of the application's credentials for a token
exchange_tenant_token(store, t, tr) ==
    UNION {AfterExchange(store, t, a, tr \o <<ExchangeEvent(a)>>) : a \in ExchangeAnswers}

\* The cache is not consulted: every call exchanges
get_feishu_tenant_token_uncached(store, t) ==
    UNION {IF g.exc /= "none" THEN {g} ELSE exchange_tenant_token(g.kv, t, g.trace)
           : g \in kv_get(store, TOKEN_KEY, t)}

get_feishu_tenant_token(store, t) ==
    UNION {IF g.exc /= "none" THEN {g}
           ELSE IF Truthy(g.ret) THEN {g}
           ELSE exchange_tenant_token(g.kv, t, g.trace)
           : g \in kv_get(store, TOKEN_KEY, t)}

\* What the message-reply endpoint can answer; a failure is a
\* requests.RequestException, caught
ReplyAnswers == {"ok", "network_error", "http_error"}

ReplyEvent(message_id, content, token, answer) ==
    <<"reply", message_id, content, token, answer>>

\* The reply is posted whether or not a token was obtained
reply_to_feishu_unchecked(store, t, message_id, content) ==
    UNION {IF g.exc /= "none" THEN {g}
           ELSE {Outcome(g.kv, PyNone, "none",
                         g.trace \o <<ReplyEvent(message_id, content, g.ret, a)>>)
                 : a \in ReplyAnswers}
           : g \in get_feishu_tenant_token(store, t)}

\* The post made outside any try: a reply that is not delivered raises
reply_to_feishu_raises(store, t, message_id, content) ==
    UNION {IF g.exc /= "none" THEN {g}
           ELSE IF ~Truthy(g.ret) THEN {Outcome(g.kv, PyNone, "none", g.trace)}
           ELSE {Outcome(g.kv, PyNone, IF a = "ok" THEN "none" ELSE "RequestException",
                         g.trace \o <<ReplyEvent(message_id, content, g.ret, a)>>)
                 : a \in ReplyAnswers}
           : g \in get_feishu_tenant_token(store, t)}

reply_to_feishu(store, t, message_id, content) ==
    UNION {IF g.exc /= "none" THEN {g}
           ELSE IF ~Truthy(g.ret) THEN {Outcome(g.kv, PyNone, "none", g.trace)}
           ELSE {Outcome(g.kv, PyNone, "none",
                         g.trace \o <<ReplyEvent(message_id, content, g.ret, a)>>)
                 : a \in ReplyAnswers}
           : g \in get_feishu_tenant_token(store, t)}

----------------------------------------------------------------------------
(* Text *)

\* str(v) inside an f-string
Str(v) == IF IsNone(v) THEN <<"None">> ELSE v.str

\* The session key: f"feishu_session_{chat_id}_{user_id}"
SessionId(chat_id, user_id) ==
    <<"feishu_session_">> \o Str(chat_id) \o <<"_">> \o Str(user_id)

RECURSIVE LStrip(_)
LStrip(s) == IF s /= <<>> /\ Head(s) = " " THEN LStrip(Tail(s)) ELSE s

RECURSIVE RStrip(_)
RStrip(s) ==
    IF s /= <<>> /\ s[Len(s)] = " " THEN RStrip(SubSeq(s, 1, Len(s) - 1)) ELSE s

\* s.strip()
Strip(s) == RStrip(LStrip(s))

\* s.replace("@_user_1", "")
RemoveMention(s) == SelectSeq(s, LAMBDA a : a /= "@_user_1")

LowerAtom(a) ==
    CASE a = "/CLEAR" -> "/clear"
      [] a = "/Clear" -> "/clear"
      [] a = "Hi" -> "hi"
      [] OTHER -> a

\* s.lower()
Lower(s) == [i \in DOMAIN s |-> LowerAtom(s[i])]

\* content_json.get("text", "").strip().replace("@_user_1", "").strip()
Normalize(s) == Strip(RemoveMention(Strip(s)))

\* The user's text of a message: "" when the content is no JSON text of an
\* object with a str under "text".  A content that is no str at all makes
\* json.loads raise TypeError, which the handler does not catch.
ContentRaises(message) == ~IsJsonText(Get(message, "content", JsonText(EmptyDict)))
                          /\ ~IsStr(Get(message, "content", JsonText(EmptyDict)))

UserText(message) ==
    LET content == Get(message, "content", JsonText(EmptyDict)) IN
    IF ~IsJsonText(content) THEN <<>>                     \* json.JSONDecodeError
    ELSE IF ~IsDict(content.jsontext) THEN <<>>           \* AttributeError
    ELSE IF ~IsStr(Get(content.jsontext, "text", PyStr(<<>>))) THEN <<>>  \* AttributeError
    ELSE Normalize(Get(content.jsontext, "text", PyStr(<<>>)).str)

----------------------------------------------------------------------------
(* The webhook *)

NoJson == [nojson |-> TRUE]

Raise(store, e, tr) == {Outcome(store, PyNone, e, tr)}

\* return jsonify(body)
Respond(store, body, tr) == {Outcome(store, [status |-> 200, json |-> body], "none", tr)}

\* What the completion endpoint can answer
CompletionAnswers == {[kind |-> "ok", text |-> <<"re">>], [kind |-> "error", text |-> <<>>]}

CompletionEvent(history, user_text, a) == <<"completion", history, user_text, a.kind>>

\* A chat started without the history: only the new turns are in it
ChatHistory_newTurnsOnly(history, user_text, a) ==
    <<[role |-> "user", text |-> user_text], [role |-> "model", text |-> a.text]>>

\* chat.history after send_message: the history given, the user's turn, the
\* model's turn
ChatHistory(history, user_text, a) ==
    history \o <<[role |-> "user", text |-> user_text], [role |-> "model", text |-> a.text]>>

CLEARED == <<"history cleared">>
ErrorText(e) == <<"error", e>>

\* The except branch: the error is sent to the user as the reply
ErrorReply(store, t, message_id, e, tr) ==
    {IF r.exc /= "none"
        THEN Outcome(r.kv, PyNone, r.exc, tr \o r.trace)
        ELSE Outcome(r.kv, [status |-> 200, json |-> [status |-> "success"]], "none",
                     tr \o r.trace)
     : r \in reply_to_feishu(store, t, message_id, ErrorText(e))}

\* 4.: the clear command
ClearCommand(store, t, session_id, message_id) ==
    UNION {IF c.exc /= "none" THEN {c}
           ELSE {IF r.exc /= "none"
                    THEN Outcome(r.kv, PyNone, r.exc, c.trace \o r.trace)
                    ELSE Outcome(r.kv, [status |-> 200, json |-> [status |-> "success"]],
                                 "none", c.trace \o r.trace)
                 : r \in reply_to_feishu(c.kv, t, message_id, CLEARED)}
           : c \in clear_conversation_history(store, t, session_id)}

\* The user's turn is saved before the completion's answer is looked at
AfterCompletion_savesUserTurn(store, t, session_id, message_id, history, user_text, a, tr) ==
    UNION {ErrorReply(w.kv, t, message_id, "GeminiError", tr \o w.trace)
           : w \in save_conversation_history(
                store, t, session_id,
                PyList(history \o <<[role |-> "user", text |-> user_text]>>))}

\* 5., after the completion answered
AfterCompletion(store, t, session_id, message_id, history, user_text, a, tr) ==
    IF a.kind /= "ok" THEN ErrorReply(store, t, message_id, "GeminiError", tr)
    ELSE UNION {
        IF w.exc /= "none" THEN ErrorReply(w.kv, t, message_id, w.exc, tr \o w.trace)
        ELSE UNION {
            IF r.exc /= "none"
                THEN ErrorReply(r.kv, t, message_id, r.exc, tr \o w.trace \o r.trace)
                ELSE Respond(r.kv, [status |-> "success"], tr \o w.trace \o r.trace)
            : r \in reply_to_feishu(w.kv, t, message_id, a.text)}
        : w \in save_conversation_history(store, t, session_id,
                                          PyList(ChatHistory(history, user_text, a)))}

\* 5.: the text goes to Gemini with the session's history.  A session
\* that already holds MaxTurns turns takes no further message.
Chat(store, t, session_id, message_id, user_text) ==
    UNION {IF g.exc /= "none" THEN ErrorReply(g.kv, t, message_id, g.exc, g.trace)
           ELSE IF Len(g.ret.list) + 2 > MaxTurns THEN {}
           ELSE UNION {AfterCompletion(g.kv, t, session_id, message_id, g.ret.list, user_text,
                                       a, g.trace \o <<CompletionEvent(g.ret.list, user_text, a)>>)
                       : a \in CompletionAnswers}
           : g \in get_conversation_history(store, t, session_id)}

\* The command test compares the text as typed, so "/CLEAR" is no command
IsClearCommand_caseSensitive(user_text) == user_text = <<"/clear">>

\* 4.: user_text.lower() == "/clear"
IsClearCommand(user_text) == Lower(user_text) = <<"/clear">>

\* Every event is taken for a message
IsMessageReceive_any(header) == TRUE

\* 2.: header.get("event_type") is "im.message.receive_v1"
IsMessageReceive(header) == Get(header, "event_type", PyNone) = PyStr(<<"im.message.receive_v1">>)

\* 3. and on: a message event
MessageEvent(store, t, data) ==
    LET event == Get(data, "event", EmptyDict) IN
    IF ~IsDict(event) THEN Raise(store, "AttributeError", <<>>)
    ELSE
    LET message == Get(event, "message", EmptyDict)
        sender == Get(event, "sender", EmptyDict)
    IN
    IF ~IsDict(message) \/ ~IsDict(sender) THEN Raise(store, "AttributeError", <<>>)
    ELSE
    LET message_id == Get(message, "message_id", PyNone)
        sender_id == Get(sender, "sender_id", EmptyDict)
    IN
    IF ~IsDict(sender_id) THEN Raise(store, "AttributeError", <<>>)
    ELSE
    LET session_id == SessionId(Get(message, "chat_id", PyNone), Get(sender_id, "user_id", PyNone))
    IN
    IF ContentRaises(message) THEN Raise(store, "TypeError", <<>>)
    ELSE
    LET user_text == UserText(message) IN
    IF user_text = <<>> THEN Respond(store, [status |-> "empty message ignored"], <<>>)
    ELSE IF IsClearCommand(user_text)
        THEN ClearCommand(store, t, session_id, message_id)
    ELSE Chat(store, t, session_id, message_id, user_text)

\* The event type looked at before the challenge: a body that is a message
\* event is handled as one though it carries a challenge
webhook_handler_eventFirst(store, t, request) ==
    IF request = NoJson THEN Raise(store, "HTTPException", <<>>)
    ELSE IF ~IsDict(request) THEN Raise(store, "AttributeError", <<>>)
    ELSE
    LET header == Get(request, "header", EmptyDict) IN
    IF ~IsDict(header) THEN Raise(store, "AttributeError", <<>>)
    ELSE IF IsMessageReceive(header) THEN MessageEvent(store, t, request)
    ELSE IF Contains(request, "challenge")
        THEN Respond(store, [challenge |-> request.dict["challenge"]], <<>>)
    ELSE Respond(store, [status |-> "event ignored"], <<>>)

webhook_handler(store, t, request) ==
    \* request.json of a body that is no JSON: Flask answers 415 or 400
    IF request = NoJson THEN Raise(store, "HTTPException", <<>>)
    ELSE
    LET data == request IN
    \* 1.
    IF Truthy(data) /\ Contains(data, "challenge")
        THEN IF IsDict(data)
                THEN Respond(store, [challenge |-> data.dict["challenge"]], <<>>)
                ELSE Raise(store, "TypeError", <<>>)
    \* 2.
    ELSE IF ~IsDict(data) THEN Raise(store, "AttributeError", <<>>)
    ELSE
    LET header == Get(data, "header", EmptyDict) IN
    IF ~IsDict(header) THEN Raise(store, "AttributeError", <<>>)
    ELSE IF ~IsMessageReceive(header)
        THEN Respond(store, [status |-> "event ignored"], <<>>)
    ELSE MessageEvent(store, t, data)

\* The status the caller gets: Flask answers an HTTPException with its own
\* status (415, 400) and any other exception that leaves the handler with 500
HttpStatus(res) ==
    IF res.exc = "none" THEN res.ret.status
    ELSE IF res.exc = "HTTPException" THEN 415
    ELSE 500

----------------------------------------------------------------------------
(* Time *)

\* The clock moves to the instant right before or right at the expiry of a
\* key of the store: between two such instants no operation can tell the
\* time
TickTargets ==
    {t \in UNION {{kv[k].exp - 1, kv[k].exp} : k \in DOMAIN kv} :
        t > now /\ t <= MaxNow}

Tick ==
    \E t \in TickTargets :
        /\ now' = t
        /\ call' = [fn |-> "tick", args |-> <<>>]
        /\ result' = [ret |-> PyNone, exc |-> "none"]
        /\ trace' = <<>>
        /\ kv' = KvExpire(kv, t)
        /\ UNCHANGED proc

\* Two invocations can run at the same time
Procs == {1, 2}

\* An invocation that has not begun: the function it runs, the line it is
\* at, whether it is inside the try or the except of the handler, its local
\* history and token, whether and when it wrote the token and whether it
\* saved the history, and what it returned or raised
IdleProc ==
    [fn |-> "none", pc |-> "idle", stage |-> "try", history |-> <<>>, token |-> <<>>,
     wrote |-> FALSE, at |-> 0, saved |-> FALSE, ret |-> PyNone, exc |-> "none"]

Init ==
    /\ kv = EmptyKv
    /\ now = 0
    /\ call = [fn |-> "init", args |-> <<>>]
    /\ result = [ret |-> PyNone, exc |-> "none"]
    /\ trace = <<>>
    /\ proc = [p \in Procs |-> IdleProc]

\* One invocation of a function: the store, the result and the trace become
\* those of one of its outcomes
Invoke(fn, args, outcomes) ==
    \E r \in outcomes :
        /\ kv' = r.kv
        /\ call' = [fn |-> fn, args |-> args]
        /\ result' = [ret |-> r.ret, exc |-> r.exc]
        /\ trace' = r.trace
        /\ now' = now
        /\ UNCHANGED proc

----------------------------------------------------------------------------
(* The session store called directly *)

\* The histories written: dialogues of up to MaxTurns turns, the user's and
\* the model's in turn
Turn(i) ==
    IF i % 2 = 1 THEN [role |-> "user", text |-> <<"hi">>]
    ELSE [role |-> "model", text |-> <<"re">>]

Histories == {[i \in 1..n |-> Turn(i)] : n \in 0..MaxTurns}

StoreKeys == {<<"feishu_session_", "a", "_", "u">>, <<"feishu_session_", "b", "_", "u">>}

CallGetHistory ==
    \E s \in StoreKeys :
        Invoke("get_conversation_history", <<s>>, get_conversation_history(kv, now, s))

CallSaveHistory ==
    \E s \in StoreKeys, h \in Histories :
        Invoke("save_conversation_history", <<s, h>>,
               save_conversation_history(kv, now, s, PyList(h)))

CallClearHistory ==
    \E s \in StoreKeys :
        Invoke("clear_conversation_history", <<s>>, clear_conversation_history(kv, now, s))

NextStore == CallGetHistory \/ CallSaveHistory \/ CallClearHistory \/ Tick

SpecStore == Init /\ [][NextStore]_vars

----------------------------------------------------------------------------
(* The token functions called directly, one call after the other *)

CallGetToken ==
    Invoke("get_feishu_tenant_token", <<>>, get_feishu_tenant_token(kv, now))

CallReply ==
    \E m \in {PyStr(<<"m1">>), PyNone} :
        Invoke("reply_to_feishu", <<m, <<"re">>>>, reply_to_feishu(kv, now, m, <<"re">>))

NextToken == CallGetToken \/ CallReply \/ Tick

SpecToken == Init /\ [][NextToken]_vars

----------------------------------------------------------------------------
(* The webhook called with one request after the other *)

MESSAGE_RECEIVE == PyStr(<<"im.message.receive_v1">>)

MessageHeader == PyDict([event_type |-> MESSAGE_RECEIVE])

\* The content of a text message: the JSON text of {"text": s}
TextContent(s) == JsonText(PyDict([text |-> PyStr(s)]))

Sender(user_id) == PyDict([sender_id |-> PyDict([user_id |-> user_id])])

\* A message event of chat c, as Feishu sends it
MessageBody(c, content) ==
    PyDict([header |-> MessageHeader,
            event |-> PyDict([
                message |-> PyDict([message_id |-> PyStr(<<"m1">>), chat_id |-> PyStr(<<c>>),
                                    chat_type |-> PyStr(<<"p2p">>), content |-> content]),
                sender |-> Sender(PyStr(<<"u">>))])])

\* The texts users send
RawTexts == <<
    <<"@_user_1", " ", "hi">>,
    <<"/clear">>,
    <<"/CLEAR">>,
    <<"@_user_1", " ", "/Clear", " ">>,
    <<>>,
    <<" ", "@_user_1">> >>

\* Contents that are no JSON text of {"text": <str>}
OddContents == <<
    PyNone,
    PyStr(<<"hi">>),
    JsonText(PyList(<<>>)),
    JsonText(EmptyDict),
    JsonText(PyDict([text |-> PyNone])) >>

\* Bodies of no known shape: no JSON, JSON that is no object, objects with
\* no challenge and no message event
UnknownBodies == <<
    NoJson,
    PyNone,
    PyList(<<>>),
    PyList(<<PyStr(<<"challenge">>)>>),
    EmptyDict,
    PyDict([header |-> PyNone]),
    PyDict([header |-> PyDict([event_type |-> PyStr(<<"im.message.message_read_v1">>)])]) >>

\* URL verification, alone and in a body that is a message event too
ChallengeBodies == <<
    PyDict([challenge |-> PyStr(<<"c">>)]),
    PyDict([challenge |-> PyStr(<<"c">>), header |-> MessageHeader,
            event |-> PyDict([message |-> PyDict([content |-> TextContent(<<"hi">>)])])]) >>

\* The direct-completion shape
InputTextBodies == <<PyDict([input_text |-> PyStr(<<"x">>)])>>

\* Message events with parts missing or null
PartialEvents == <<
    PyDict([header |-> MessageHeader]),
    PyDict([header |-> MessageHeader, event |-> PyNone]),
    PyDict([header |-> MessageHeader, event |-> PyDict([message |-> PyNone])]),
    PyDict([header |-> MessageHeader, event |-> PyDict([sender |-> PyNone])]),
    PyDict([header |-> MessageHeader, event |-> PyDict([sender |-> PyDict([sender_id |-> PyNone])])]),
    PyDict([header |-> MessageHeader,
            event |-> PyDict([message |-> PyDict([content |-> TextContent(<<"hi">>)])])]) >>

Requests ==
    [i \in DOMAIN RawTexts |-> MessageBody("a", TextContent(RawTexts[i]))]
    \o [i \in DOMAIN OddContents |-> MessageBody("a", OddContents[i])]
    \o UnknownBodies \o ChallengeBodies \o InputTextBodies \o PartialEvents

Webhook ==
    \E i \in DOMAIN Requests :
        Invoke("webhook_handler", <<Requests[i]>>, webhook_handler(kv, now, Requests[i]))

\* No time passes between the requests: a request sees of the time only
\* whether a key is there, and every such store is reached by requests alone
Next == Webhook

Spec == Init /\ [][Next]_vars

----------------------------------------------------------------------------
(* The session key derived for one pair of identifiers after the other *)

IdAtoms == {"a", "b", "_"}

\* The identifiers: strings of up to MaxIdLen characters, the string "None",
\* and None for an identifier that is absent from the event
Ids ==
    {PyStr(s) : s \in UNION {[1..n -> IdAtoms] : n \in 1..MaxIdLen}}
    \cup {PyStr(<<"None">>), PyNone}

DeriveSessionId ==
    \E c \in Ids, u \in Ids :
        Invoke("session_id", <<c, u>>, {Outcome(kv, PyStr(SessionId(c, u)), "none", <<>>)})

NextKey == DeriveSessionId

SpecKey == Init /\ [][NextKey]_vars

Returned(fn) == call.fn = fn /\ result.exc = "none"

\* C2: save_conversation_history(s, h) followed immediately by
\* get_conversation_history(s), both returning normally and with no time
\* passing in between, gives back exactly h (the empty sequence included).
C2_SaveThenGet ==
    [][(/\ Returned("save_conversation_history")
        /\ call'.fn = "get_conversation_history"
        /\ result'.exc = "none"
        /\ call'.args[1] = call.args[1]
        /\ now' = now)
       => result'.ret = PyList(call.args[2])]_vars

\* A get that returned a history of MaxTurns turns: only a save put it there
C2_Witness ==
    /\ Returned("get_conversation_history")
    /\ Len(result.ret.list) = MaxTurns

\* C3: after clear_conversation_history(s) returned, s is absent from the
\* store; a get_conversation_history(s) that follows returns the empty
\* sequence; a second clear_conversation_history(s) leaves the store as it is.
C3_ClearThenGetOrClear ==
    /\ [](Returned("clear_conversation_history") => call.args[1] \notin DOMAIN kv)
    /\ [][(/\ Returned("clear_conversation_history")
            /\ call'.fn = "get_conversation_history"
            /\ result'.exc = "none"
            /\ call'.args[1] = call.args[1])
           => result'.ret = PyList(<<>>)]_vars
    /\ [][(/\ Returned("clear_conversation_history")
            /\ call'.fn = "clear_conversation_history"
            /\ result'.exc = "none"
            /\ call'.args[1] = call.args[1])
           => kv' = kv]_vars

\* A clear that returned while the other session is still stored
C3_Witness ==
    /\ Returned("clear_conversation_history")
    /\ DOMAIN kv /= {}

\* C1: the session key is the same on every derivation for the same (chat,
\* sender) pair, and two different pairs never give the same key.
C1_KeyInjective ==
    [][(call.fn = "session_id" /\ call'.fn = "session_id")
       => (call'.args = call.args <=> result'.ret = result.ret)]_vars

HasEvent(tr, name) == \E i \in DOMAIN tr : tr[i][1] = name

EventsNamed(tr, name) == {i \in DOMAIN tr : tr[i][1] = name}

\* C4: a call of get_feishu_tenant_token made while the store holds an
\* unexpired token (cached by an exchange that succeeded) does not invoke the
\* token-exchange endpoint and, when it returns, returns the cached token.
\* The token endpoint is taken to keep its contract: code 0 comes with a
\* token that is not empty.
C4_NoExchangeInsideWindow ==
    [][(/\ call'.fn = "get_feishu_tenant_token"
        /\ now' = now
        /\ KvLive(kv, TOKEN_KEY, now))
       => /\ ~HasEvent(trace', "token_exchange")
          /\ result'.exc = "none" => result'.ret = kv[TOKEN_KEY].val]_vars

\* A call answered from the cache in the last second of the token's window
C4_Witness ==
    /\ Returned("get_feishu_tenant_token")
    /\ trace = <<<<"kv.get", TOKEN_KEY, "hit">>>>
    /\ now = kv[TOKEN_KEY].exp - 1
    /\ result.ret \in {PyStr(tk) : tk \in Tokens}

FailedExchange(tr) ==
    \E i \in DOMAIN tr :
        /\ tr[i][1] = "token_exchange"
        /\ tr[i][2] \in {"network_error", "http_error", "code_nonzero"}

\* C9: when the exchange fails (network error, HTTP error status, code other
\* than 0), get_feishu_tenant_token returns None without raising, leaves the
\* store as it was, writes no key and has called the token endpoint once.
C9_FailedExchangeGivesNone ==
    [][(call'.fn = "get_feishu_tenant_token" /\ FailedExchange(trace'))
       => /\ result' = [ret |-> PyNone, exc |-> "none"]
          /\ kv' = kv
          /\ ~HasEvent(trace', "kv.set")
          /\ Cardinality(EventsNamed(trace', "token_exchange")) = 1]_vars

\* The token endpoint answered with a code other than 0
C9_Witness ==
    /\ Returned("get_feishu_tenant_token")
    /\ trace = <<<<"kv.get", TOKEN_KEY, "miss">>, <<"token_exchange", "code_nonzero", <<>>, 0>>>>

\* The validity the token endpoint stated for token tk
StatedValidity(tk) ==
    (CHOOSE a \in ExchangeAnswers : a.kind = "ok" /\ PyStr(a.token) = tk).expire

\* C11: the token is cached for less than the validity the endpoint stated
\* for it, so get_feishu_tenant_token never returns from the cache a token
\* whose validity has elapsed: a token read from the cache at time now was
\* cached at exp - TOKEN_EX and is valid for StatedValidity from then.
C11_CachedTokenStillValid ==
    (Returned("get_feishu_tenant_token") /\ trace = <<<<"kv.get", TOKEN_KEY, "hit">>>>)
        => now < kv[TOKEN_KEY].exp - TOKEN_EX + StatedValidity(result.ret)

\* The token was read from the cache, or exchanged and then cached, before
\* position i of the trace
TokenObtainedBefore(tr, i) ==
    \E j \in 1..(i - 1) :
        \/ tr[j] = <<"kv.get", TOKEN_KEY, "hit">>
        \/ /\ tr[j][1] = "token_exchange" /\ tr[j][2] = "ok"
           /\ j + 1 < i
           /\ tr[j + 1] = <<"kv.set", TOKEN_KEY, "ok">>

\* C10: in an invocation of reply_to_feishu the message-reply endpoint is
\* called only after a token was obtained in that invocation, from the
\* cache or from a refresh that completed, and with that token; when the
\* cache holds no token and the refresh fails, it is not called.
C10_ReplyOnlyWithToken ==
    call.fn = "reply_to_feishu" =>
        /\ \A i \in EventsNamed(trace, "reply") :
                /\ TokenObtainedBefore(trace, i)
                /\ Truthy(trace[i][4])
                /\ trace[i][4] = KvLookup(kv, TOKEN_KEY, now)
        /\ (\E j \in DOMAIN trace :
                /\ trace[j][1] = "token_exchange"
                /\ trace[j][2] /= "ok")
           => ~HasEvent(trace, "reply")

\* A reply posted with a token that this invocation exchanged and cached
C10_Witness ==
    /\ Returned("reply_to_feishu")
    /\ Len(trace) = 4
    /\ trace[2][1] = "token_exchange"
    /\ trace[4][1] = "reply"

----------------------------------------------------------------------------
(* Claims about the webhook *)

Handled(body) == call.fn = "webhook_handler" /\ call.args[1] = body

IsOneOf(bodies) == call.fn = "webhook_handler" /\ \E i \in DOMAIN bodies : call.args[1] = bodies[i]

SESSION_A == SessionId(PyStr(<<"a">>), PyStr(<<"u">>))

\* The message events whose text, with the mention and the blanks around it
\* taken off, is "/clear" in some letter case
ClearMessages ==
    <<MessageBody("a", TextContent(<<"/clear">>)),
      MessageBody("a", TextContent(<<"/CLEAR">>)),
      MessageBody("a", TextContent(<<"@_user_1", " ", "/Clear", " ">>))>>

\* C5: handling a message whose normalized text is "/clear" in any letter
\* case never calls the completion endpoint; the first thing the handler
\* does is delete the session's key, which is gone once the store did it.
C5_ClearNeverCompletes ==
    IsOneOf(ClearMessages) =>
        /\ ~HasEvent(trace, "completion")
        /\ trace /= <<>>
        /\ trace[1][1] = "kv.delete" /\ trace[1][2] = SESSION_A
        /\ trace[1][3] = "ok" => SESSION_A \notin DOMAIN kv

\* "/Clear" behind a mention, handled to the end with the confirmation sent
C5_Witness ==
    /\ Handled(ClearMessages[3])
    /\ result.exc = "none"
    /\ \E i \in DOMAIN trace : trace[i][1] = "reply" /\ trace[i][3] = CLEARED /\ trace[i][5] = "ok"

TouchesSession(tr) ==
    \E i \in DOMAIN tr :
        /\ tr[i][1] \in {"kv.get", "kv.set", "kv.delete"}
        /\ tr[i][2] /= TOKEN_KEY

\* C6: a {input_text: x} body is answered with a JSON object that has a
\* result field holding a completion for x, and handling it touches no
\* session key of the store.
C6_InputTextCompletion ==
    IsOneOf(InputTextBodies) =>
        /\ result.exc = "none"
        /\ "result" \in DOMAIN result.ret.json
        /\ \E i \in DOMAIN trace : trace[i][1] = "completion" /\ trace[i][3] = <<"x">>
        /\ ~TouchesSession(trace)

UnknownObjects == <<UnknownBodies[5], UnknownBodies[7]>>

C8_AlwaysResponds ==
    call.fn = "webhook_handler" => result.exc \in {"none", "HTTPException"}

----------------------------------------------------------------------------
(* Claims about a chat *)

\* The completion endpoint was called and failed
CompletionFailed(tr) == \E i \in DOMAIN tr : tr[i][1] = "completion" /\ tr[i][4] = "error"

\* The completion endpoint was called and answered
CompletionSucceeded(tr) == \E i \in DOMAIN tr : tr[i][1] = "completion" /\ tr[i][4] = "ok"

\* C12: when the completion call fails for a chat message, the failure is
\* caught: a reply whose body is the error message is posted for that
\* message, and the handler returns its normal response.
C12_CompletionFailureReplied ==
    (call.fn = "webhook_handler" /\ CompletionFailed(trace)) =>
        /\ result.exc = "none"
        /\ result.ret = [status |-> 200, json |-> [status |-> "success"]]
        /\ \E i \in DOMAIN trace :
            /\ trace[i][1] = "reply"
            /\ trace[i][2] = PyStr(<<"m1">>)
            /\ trace[i][3] = ErrorText("GeminiError")

\* The message events with no text to answer: the text empty or only a
\* mention and blanks, the content null, no JSON, no JSON object, without
\* text, with a null text, and the content absent
NoTextMessages ==
    <<MessageBody("a", TextContent(RawTexts[5])),
      MessageBody("a", TextContent(RawTexts[6]))>>
    \o [i \in DOMAIN OddContents |-> MessageBody("a", OddContents[i])]
    \o <<PartialEvents[1]>>

\* C13: a message event whose text is malformed, absent or empty once
\* normalized is answered with the "ignored" status and nothing else is
\* done: no reply, no completion, no read or write of the store.
C13_NoTextIgnored ==
    IsOneOf(NoTextMessages) =>
        /\ result.exc = "none"
        /\ result.ret = [status |-> 200, json |-> [status |-> "empty message ignored"]]
        /\ trace = <<>>

----------------------------------------------------------------------------
(* Claims about the life of a session key *)

\* C14: a session key is absent, then present and fresh, then absent again.
\* It becomes present, or its value or expiry changes, only by a
\* save_conversation_history of that key, which stores the value given with
\* the expiry one hour after the write; it becomes absent only by a
\* clear_conversation_history of that key or when its expiry time is
\* reached, and then it does; a key that is present has not reached its
\* expiry.  So get_conversation_history changes neither.
C14_SessionKeyLifecycle ==
    /\ [](\A k \in DOMAIN kv : now < kv[k].exp)
    /\ [][\A k \in StoreKeys :
            /\ (k \in DOMAIN kv' /\ (k \notin DOMAIN kv \/ kv'[k] /= kv[k]))
                => /\ call'.fn = "save_conversation_history"
                   /\ call'.args[1] = k
                   /\ result'.exc = "none"
            /\ (call'.fn = "save_conversation_history" /\ call'.args[1] = k
                    /\ result'.exc = "none")
                => /\ k \in DOMAIN kv'
                   /\ kv'[k] = [val |-> PyList(call'.args[2]), exp |-> now' + SESSION_EX]
            /\ (k \in DOMAIN kv /\ k \notin DOMAIN kv')
                => \/ call'.fn = "clear_conversation_history" /\ call'.args[1] = k
                   \/ call'.fn = "tick" /\ now' >= kv[k].exp
            /\ (call'.fn = "clear_conversation_history" /\ call'.args[1] = k
                    /\ result'.exc = "none")
                => k \notin DOMAIN kv'
            /\ (call'.fn = "tick" /\ k \in DOMAIN kv /\ now' >= kv[k].exp)
                => k \notin DOMAIN kv'
            /\ call'.fn = "get_conversation_history" => kv' = kv
         ]_vars

\* One key was dropped at its expiry, one hour or more after the start,
\* while the other, written later, is still there
C14_Witness ==
    /\ call.fn = "tick"
    /\ now >= SESSION_EX
    /\ Cardinality(DOMAIN kv) = 1
    /\ \A k \in DOMAIN kv : Len(kv[k].val.list) = MaxTurns

\* The session of a chat: the key of the read the chat begins with
SessionOf(tr) == tr[1][2]

\* The turns stored for session k, none when the key is absent
StoredTurns(store, k) == IF k \in DOMAIN store THEN store[k].val.list ELSE <<>>

\* The places of the trace where the store was asked to write session k
SessionSets(tr, k) == {i \in DOMAIN tr : tr[i][1] = "kv.set" /\ tr[i][2] = k}

\* C16: when the completion call succeeds for a chat message, the handler
\* saves, before any reply is posted, the history that was stored at the
\* start of the request followed by the user's turn and the model's turn;
\* once the store did the write, that history is what the store holds at
\* the end of the request, whether or not the reply was delivered.
C16_SavedHistoryAppends ==
    [][(call'.fn = "webhook_handler" /\ CompletionSucceeded(trace')) =>
        LET k == SessionOf(trace')
            c == CHOOSE i \in DOMAIN trace' : trace'[i][1] = "completion"
        IN
        /\ trace'[1][1] = "kv.get"
        /\ trace'[c][2] = StoredTurns(kv, k)
        /\ Cardinality(SessionSets(trace', k)) = 1
        /\ \A i \in SessionSets(trace', k) :
            /\ c < i
            /\ \A j \in EventsNamed(trace', "reply") : i < j
            /\ trace'[i][3] = "ok" =>
                StoredTurns(kv', k) = StoredTurns(kv, k)
                    \o <<[role |-> "user", text |-> trace'[c][3]],
                         [role |-> "model", text |-> <<"re">>]>>
       ]_vars

\* A second message of the session was answered and saved, and the reply
\* was not delivered
C16_Witness ==
    /\ call.fn = "webhook_handler"
    /\ CompletionSucceeded(trace)
    /\ Len(StoredTurns(kv, SESSION_A)) = MaxTurns
    /\ \E i \in DOMAIN trace : trace[i] = <<"kv.set", SESSION_A, "ok">>
    /\ \E j \in DOMAIN trace : trace[j][1] = "reply" /\ trace[j][5] = "network_error"

\* C17: when the completion call fails for a chat message, the record stored
\* for the session is as it was before the request: the same turns with the
\* same expiry, or still none; the store is not asked to write it.
C17_FailureKeepsRecord ==
    [][(call'.fn = "webhook_handler" /\ CompletionFailed(trace')) =>
        LET k == SessionOf(trace') IN
        /\ trace'[1][1] = "kv.get"
        /\ (k \in DOMAIN kv') = (k \in DOMAIN kv)
        /\ k \in DOMAIN kv => kv'[k] = kv[k]
        /\ SessionSets(trace', k) = {}
       ]_vars

\* The completion failed for a message of a session with stored turns
C17_Witness ==
    /\ call.fn = "webhook_handler"
    /\ CompletionFailed(trace)
    /\ StoredTurns(kv, SESSION_A) /= <<>>
    /\ SessionOf(trace) = SESSION_A

----------------------------------------------------------------------------
(* Claims about the effects of a request *)

\* The bodies with an event type that is not the message-receive event:
\* another event type, or none at all
OtherEventBodies == UnknownObjects \o InputTextBodies

\* C19: a request that carries a challenge, or whose event type is not the
\* message-receive event, is answered and nothing else is done: the store
\* is as it was and no call of the store, the token exchange, the completion
\* or the reply endpoint is made; the challenge is echoed, also when the
\* body is a message event too.
C19_NoSideEffect ==
    [][/\ (call'.fn = "webhook_handler"
            /\ \E i \in DOMAIN ChallengeBodies : call'.args[1] = ChallengeBodies[i])
           => /\ kv' = kv
              /\ trace' = <<>>
              /\ result' = [ret |-> [status |-> 200, json |-> [challenge |-> PyStr(<<"c">>)]],
                            exc |-> "none"]
       /\ (call'.fn = "webhook_handler"
            /\ \E i \in DOMAIN OtherEventBodies : call'.args[1] = OtherEventBodies[i])
           => /\ kv' = kv
              /\ trace' = <<>>
              /\ result' = [ret |-> [status |-> 200, json |-> [status |-> "event ignored"]],
                            exc |-> "none"]
      ]_vars

\* The challenge of a body that is a message event too was echoed, with a
\* session stored
C19_Witness ==
    /\ Handled(ChallengeBodies[2])
    /\ result.ret.json = [challenge |-> PyStr(<<"c">>)]
    /\ SESSION_A \in DOMAIN kv

\* C20: handling one request posts to the reply endpoint at most once,
\* whatever the store, the token exchange, the completion and the reply
\* endpoint answer.
C20_AtMostOneReply ==
    call.fn = "webhook_handler" => Cardinality(EventsNamed(trace, "reply")) <= 1

\* The history was not saved, and the error branch posted the one reply
C20_Witness ==
    /\ call.fn = "webhook_handler"
    /\ \E i \in DOMAIN trace : trace[i][1] = "kv.set" /\ trace[i][3] = "Exception"
    /\ \E j \in DOMAIN trace : trace[j][1] = "reply" /\ trace[j][3] = ErrorText("Exception")

----------------------------------------------------------------------------
(* Two invocations at the same time.  Each runs in a process of its own and
   shares only the store with the other, so the steps of the two interleave
   at the calls of the store and of the endpoints. *)

\* The message each invocation handles, both of session A
UserTextOf(p) == IF p = 1 THEN <<"hi">> ELSE <<"yo">>

SUCCESS == [status |-> 200, json |-> [status |-> "success"]]

\* The step changes the store and the invocation p, and nothing else
Step(p, store, fields) ==
    /\ kv' = store
    /\ proc' = [proc EXCEPT ![p] = fields]
    /\ call' = [fn |-> "step", args |-> <<p>>]
    /\ result' = [ret |-> PyNone, exc |-> "none"]
    /\ trace' = <<>>
    /\ now' = now

\* An exception e in invocation p: it leaves get_feishu_tenant_token; in the
\* handler's try it is caught and the error is replied; in the except branch
\* it leaves the handler
Raised(p, e) ==
    IF proc[p].fn = "webhook_handler" /\ proc[p].stage = "try"
        THEN [proc[p] EXCEPT !.stage = "except", !.pc = "kv.get token"]
        ELSE [proc[p] EXCEPT !.pc = "done", !.exc = e]

\* get_feishu_tenant_token returns v: to the caller of the function, or to
\* reply_to_feishu, which posts if it has a token and returns if not
Returns(p, f, v) ==
    IF f.fn = "get_feishu_tenant_token" THEN [f EXCEPT !.pc = "done", !.ret = v]
    ELSE IF Truthy(v) THEN [f EXCEPT !.pc = "post reply"]
    ELSE [f EXCEPT !.pc = "done", !.ret = SUCCESS]

\* An invocation of get_feishu_tenant_token begins
StartToken(p) ==
    /\ proc[p].pc = "idle"
    /\ Step(p, kv, [proc[p] EXCEPT !.fn = "get_feishu_tenant_token", !.pc = "kv.get token"])

\* token = kv.get('FEISHU_TENANT_ACCESS_TOKEN'); if token: return token
TokenGet(p) ==
    /\ proc[p].pc = "kv.get token"
    /\ \E r \in kv_get(kv, TOKEN_KEY, now) :
        Step(p, r.kv,
             IF r.exc /= "none" THEN Raised(p, r.exc)
             ELSE IF Truthy(r.ret) THEN Returns(p, proc[p], r.ret)
             ELSE [proc[p] EXCEPT !.pc = "post token"])

\* requests.post(url, ...); data = response.json(); data.get("code") == 0
TokenPost(p) ==
    /\ proc[p].pc = "post token"
    /\ \E a \in ExchangeAnswers :
        \/ /\ a.kind = "ok"
           /\ Step(p, kv, [proc[p] EXCEPT !.token = a.token, !.pc = "kv.set token"])
        \/ /\ a.kind /= "ok"
           /\ Step(p, kv, Returns(p, proc[p], PyNone))
        \/ /\ a.kind = "invalid_json"
           /\ Step(p, kv, Raised(p, "ValueError"))

\* A write that leaves a token that is still cached as it is
TokenSet_onlyIfAbsent(p) ==
    /\ proc[p].pc = "kv.set token"
    /\ Step(p, IF KvLive(kv, TOKEN_KEY, now) THEN kv
               ELSE KvWith(kv, TOKEN_KEY, PyStr(proc[p].token), TOKEN_EX, now),
            Returns(p, [proc[p] EXCEPT !.wrote = TRUE, !.at = now], PyStr(proc[p].token)))

\* kv.set('FEISHU_TENANT_ACCESS_TOKEN', token, ex=6600); return token
TokenSet(p) ==
    /\ proc[p].pc = "kv.set token"
    /\ \E w \in kv_set(kv, TOKEN_KEY, PyStr(proc[p].token), TOKEN_EX, now) :
        Step(p, w.kv,
             IF w.exc = "none"
                THEN Returns(p, [proc[p] EXCEPT !.wrote = TRUE, !.at = now],
                             PyStr(proc[p].token))
             ELSE IF w.exc = "RequestException" THEN Returns(p, proc[p], PyNone)
             ELSE Raised(p, w.exc))

\* The handler begins with a text message of session A
StartChat(p) ==
    /\ proc[p].pc = "idle"
    /\ Step(p, kv, [proc[p] EXCEPT !.fn = "webhook_handler", !.pc = "kv.get history"])

\* history = get_conversation_history(session_id)
HistoryGet(p) ==
    /\ proc[p].pc = "kv.get history"
    /\ \E g \in get_conversation_history(kv, now, SESSION_A) :
        /\ g.exc = "none" => Len(g.ret.list) + 2 <= MaxTurns
        /\ Step(p, g.kv,
                IF g.exc /= "none" THEN Raised(p, g.exc)
                ELSE [proc[p] EXCEPT !.history = g.ret.list, !.pc = "send_message"])

\* chat.send_message(user_text)
Completion(p) ==
    /\ proc[p].pc = "send_message"
    /\ \E a \in CompletionAnswers :
        Step(p, kv,
             IF a.kind /= "ok" THEN Raised(p, "GeminiError")
             ELSE [proc[p] EXCEPT !.history = ChatHistory(proc[p].history, UserTextOf(p), a),
                                  !.pc = "kv.set history"])

\* save_conversation_history(session_id, chat.history), then the reply
HistorySave(p) ==
    /\ proc[p].pc = "kv.set history"
    /\ \E w \in save_conversation_history(kv, now, SESSION_A, PyList(proc[p].history)) :
        Step(p, w.kv,
             IF w.exc /= "none" THEN Raised(p, w.exc)
             ELSE [proc[p] EXCEPT !.saved = TRUE, !.pc = "kv.get token"])

\* requests.post(url, ...) of reply_to_feishu, whose failure is caught; the
\* handler returns
ReplyPost(p) ==
    /\ proc[p].pc = "post reply"
    /\ \E a \in ReplyAnswers :
        Step(p, kv, [proc[p] EXCEPT !.pc = "done", !.ret = SUCCESS])

\* The stores the two invocations can find: the empty one, and one with a
\* token cached by an invocation that is over
FoundStores == {EmptyKv, KvWith(EmptyKv, TOKEN_KEY, PyStr(<<"t1">>), TOKEN_EX, 0)}

InitConc ==
    /\ kv \in FoundStores
    /\ now = 0
    /\ call = [fn |-> "init", args |-> <<>>]
    /\ result = [ret |-> PyNone, exc |-> "none"]
    /\ trace = <<>>
    /\ proc = [p \in Procs |-> IdleProc]

NextConc ==
    \/ \E p \in Procs :
        \/ StartToken(p) \/ TokenGet(p) \/ TokenPost(p) \/ TokenSet(p)
        \/ StartChat(p) \/ HistoryGet(p) \/ Completion(p) \/ HistorySave(p)
        \/ ReplyPost(p)
    \/ Tick

SpecConc == InitConc /\ [][NextConc]_vars

----------------------------------------------------------------------------
(* Claims about two invocations at the same time *)

\* Both invocations are over
BothDone == \A p \in Procs : proc[p].pc = "done"

\* C15: two invocations that both find no token may both exchange, and no
\* harm is done: an invocation of get_feishu_tenant_token that exchanged and
\* cached returns the token the endpoint issued to it; and when both have
\* cached a token and are over, the key holds the token of the one that
\* wrote last, with the expiry TOKEN_EX after that write, until that expiry
\* is reached.
C15_HarmlessTokenRace ==
    /\ \A p \in Procs :
        (proc[p].fn = "get_feishu_tenant_token" /\ proc[p].pc = "done" /\ proc[p].wrote)
            => /\ proc[p].token \in Tokens
               /\ proc[p].ret = PyStr(proc[p].token)
               /\ proc[p].exc = "none"
    /\ (BothDone /\ \A p \in Procs : proc[p].wrote)
            => IF TOKEN_KEY \in DOMAIN kv
                THEN \E p \in Procs :
                        /\ kv[TOKEN_KEY] = [val |-> PyStr(proc[p].token),
                                            exp |-> proc[p].at + TOKEN_EX]
                        /\ \A q \in Procs : proc[q].at <= proc[p].at
                ELSE \A q \in Procs : now >= proc[q].at + TOKEN_EX

\* Both invocations found no token, were issued different tokens and cached
\* them at the same second; the store holds the token of the first
C15_Witness ==
    /\ BothDone
    /\ \A p \in Procs : proc[p].fn = "get_feishu_tenant_token" /\ proc[p].wrote
    /\ proc[1].at = proc[2].at
    /\ proc[1].token /= proc[2].token
    /\ kv[TOKEN_KEY].val = PyStr(proc[1].token)

\* C18: when two messages of one session are handled at the same time and
\* both completions succeed and both histories are saved, the history stored
\* once both are over holds the user's turn of each message followed by the
\* model's turn.
C18_NoLostTurn ==
    (/\ BothDone
     /\ \A p \in Procs : proc[p].fn = "webhook_handler" /\ proc[p].saved
     /\ SESSION_A \in DOMAIN kv)
        => \A p \in Procs :
            \E i \in 1..(Len(kv[SESSION_A].val.list) - 1) :
                /\ kv[SESSION_A].val.list[i] = [role |-> "user", text |-> UserTextOf(p)]
                /\ kv[SESSION_A].val.list[i + 1].role = "model"

====
